---- MODULE Spec2Model ----
(***************************************************************************)
(* Publisher-confirmation table (src/src/acknowledgement.rs) and waiter    *)
(* registry (src/src/wakers.rs) of lapin.                                  *)
(*                                                                         *)
(* Every method of Acknowledgements locks the table's mutex for the whole  *)
(* call, so each method is one atomic action.  The Inner methods are pure  *)
(* operators over a record `self` holding Inner's fields; the actions      *)
(* commit the record they return.                                          *)
(*                                                                         *)
(* Spec and WakersSpec run the methods of the table and of the registry as *)
(* atomic actions.  ThreadsSpec and WakerThreadsSpec run them step by step *)
(* on several threads, with the mutex as a variable.  LoopSpec runs the    *)
(* loop of complete_pending_before over given lists of tags.               *)
(***************************************************************************)
EXTENDS Integers, Sequences, FiniteSets, TLC

\* ------------------------------------------------------------------ bounds
MaxTag == 3      \* register_pending() calls per behaviour
MaxMsgs == 2     \* returned messages buffered per behaviour
NumWakers == 3   \* distinct Waker values (the first two wake the same task)

Tags == 0..MaxTag   \* tags the dispatch may name; 0 is never issued
Msgs == 1..MaxMsgs
Errors == {1, 2}      \* two distinct Error values a channel may fail with

\* The threads that share one table (resp. one registry): two publisher threads
\* and the connection's dispatch thread.
Publishers == {1, 2}
Dispatchers == {3}
Threads == Publishers \cup Dispatchers

VARIABLES
    delivery_tag,       \* Inner.delivery_tag: the IdSequence (last issued tag, 0 = none)
    last,               \* Inner.last: Option<(DeliveryTag, Promise<()>)>
    pending,            \* Inner.pending: tag -> broadcaster (index into broadcasters)
    returned_messages,  \* Inner.returned_messages: buffered returned messages, oldest first
    broadcasters,       \* every PromisesBroadcaster created so far, in creation order
    result,             \* the last call on the table and what it returned
    wakers,             \* Wakers' Vec<Waker>
    woken,              \* the wakers notified by the last wake(), in order
    wcall,              \* the last call on the waiter registry
    lock,               \* the Mutex of the object the threads share: its holder, 0 = free
    threads,            \* each thread's position in the call it is making
    owed,               \* wakers registered and not notified since
    probe               \* the last run of complete_pending_before's loop on a given tag list

ackVars == <<delivery_tag, last, pending, returned_messages, broadcasters, result>>
wakerVars == <<wakers, woken, wcall>>
threadVars == <<lock, threads, owed, probe>>
vars == <<delivery_tag, last, pending, returned_messages, broadcasters, result,
          wakers, woken, wcall, lock, threads, owed, probe>>

\* ------------------------------------------------------------ plain values
None == [kind |-> "None"]
Some(v) == [kind |-> "Some", value |-> v]
Unit == [kind |-> "Unit"]
Ok == [kind |-> "Ok"]

NoMessage == [kind |-> "None"]

Unresolved == [kind |-> "Unresolved"]
ConfirmationAck(m) == [kind |-> "Ack", msg |-> m]
ConfirmationNack(m) == [kind |-> "Nack", msg |-> m]
Rejected(e) == [kind |-> "Rejected", err |-> e]

EmptyMap == [t \in {} |-> 0]
MapRemove(m, k) == [t \in (DOMAIN m) \ {k} |-> m[t]]
MapInsert(m, k, v) == [t \in (DOMAIN m) \cup {k} |-> IF t = k THEN v ELSE m[t]]

RECURSIVE Perms(_)
Perms(S) ==
    IF S = {} THEN {<<>>}
    ELSE UNION {{<<x>> \o p : p \in Perms(S \ {x})} : x \in S}

\* ------------------------------------------------- collaborators (not in src/)
\* IdSequence<DeliveryTag>: next() is strictly greater than every value issued
\* before; current() is the last issued value.
IdSequence_new == 0
IdSequence_next(id) == id + 1
IdSequence_current(id) == id

\* PromisesBroadcaster::new(): a fresh unresolved value with its primary
\* subscriber handle.  `tag`, `settled` and `removed` are history: the tag the
\* entry was registered under, how many times resolve/reject was called on it,
\* how many times it was taken out of the pending map.
Promise(b, h) == [b |-> b, h |-> h]
PromisesBroadcaster_new(tag) ==
    [tag |-> tag, state |-> Unresolved, subs |-> {"confirm"}, settled |-> 0, removed |-> 0]
subscribe(bs, b, h) == [bs EXCEPT ![b].subs = @ \cup {h}]
unsubscribe(bs, b, promise) ==
    IF promise.b = b /\ bs[b].state = Unresolved
    THEN [bs EXCEPT ![b].subs = @ \ {promise.h}]
    ELSE bs
\* resolve/reject: the state is set once; a later call is counted and ignored.
\* The broadcaster is consumed by the call, and its subscriber list with it.
settle(bs, b, value) ==
    [bs EXCEPT ![b].state = IF @ = Unresolved THEN value ELSE @,
               ![b].subs = {},
               ![b].settled = @ + 1]
resolve(bs, b, confirmation) == settle(bs, b, confirmation)
reject(bs, b, error) == settle(bs, b, Rejected(error))

\* ReturnedMessages::get_waiting_message(): takes the oldest buffered message.
get_waiting_message(rm) ==
    IF rm = <<>> THEN [msg |-> NoMessage, rest |-> rm]
    ELSE [msg |-> Some(Head(rm)), rest |-> Tail(rm)]

\* ------------------------------------------------------------------ Inner
Self ==
    [delivery_tag |-> delivery_tag, last |-> last, pending |-> pending,
     returned_messages |-> returned_messages, broadcasters |-> broadcasters]

Commit(self) ==
    /\ delivery_tag' = self.delivery_tag
    /\ last' = self.last
    /\ pending' = self.pending
    /\ returned_messages' = self.returned_messages
    /\ broadcasters' = self.broadcasters

Inner_new ==
    [delivery_tag |-> IdSequence_new, last |-> None, pending |-> EmptyMap,
     returned_messages |-> <<>>, broadcasters |-> <<>>]

\* Faulty variant: the entry is looked up and left in the map.
TakeOut_keeps(self, tag) ==
    [self EXCEPT !.broadcasters[self.pending[tag]].removed = @ + 1]

\* pending.remove(tag) / one element of pending.drain()
TakeOut(self, tag) ==
    [self EXCEPT !.pending = MapRemove(@, tag),
                 !.broadcasters[self.pending[tag]].removed = @ + 1]

\* Faulty variant: the superseded slot handle is dropped without unsubscribe.
Inner_register_pending_no_unsubscribe(self) ==
    LET tag == IdSequence_next(self.delivery_tag)
        b == Len(self.broadcasters) + 1
        bs1 == Append(self.broadcasters, PromisesBroadcaster_new(tag))
    IN  [self |-> [self EXCEPT !.delivery_tag = tag,
                               !.last = Some([tag |-> tag, promise |-> Promise(b, "last")]),
                               !.pending = MapInsert(@, tag, b),
                               !.broadcasters = subscribe(bs1, b, "last")],
         ret |-> [kind |-> "PublisherConfirm", tag |-> tag, promise |-> Promise(b, "confirm")]]

\* Faulty variant: the tag is read with current() and the sequence not advanced.
Inner_register_pending_current_tag(self) ==
    LET tag == IdSequence_current(self.delivery_tag)
        b == Len(self.broadcasters) + 1
        bs1 == Append(self.broadcasters, PromisesBroadcaster_new(tag))
        bs2 == IF self.last.kind = "Some" /\ self.last.value.tag \in DOMAIN self.pending
               THEN unsubscribe(bs1, self.pending[self.last.value.tag], self.last.value.promise)
               ELSE bs1
    IN  [self |-> [self EXCEPT !.delivery_tag = tag,
                               !.last = Some([tag |-> tag, promise |-> Promise(b, "last")]),
                               !.pending = MapInsert(@, tag, b),
                               !.broadcasters = subscribe(bs2, b, "last")],
         ret |-> [kind |-> "PublisherConfirm", tag |-> tag, promise |-> Promise(b, "confirm")]]

\* Faulty variant: the superseded entry is looked up with remove(), not get().
Inner_register_pending_remove_superseded(self) ==
    LET tag == IdSequence_next(self.delivery_tag)
        b == Len(self.broadcasters) + 1
        superseded == self.last.kind = "Some" /\ self.last.value.tag \in DOMAIN self.pending
        s1 == IF superseded THEN TakeOut(self, self.last.value.tag) ELSE self
        bs1 == Append(s1.broadcasters, PromisesBroadcaster_new(tag))
        bs2 == IF superseded
               THEN unsubscribe(bs1, self.pending[self.last.value.tag], self.last.value.promise)
               ELSE bs1
    IN  [self |-> [s1 EXCEPT !.delivery_tag = tag,
                             !.last = Some([tag |-> tag, promise |-> Promise(b, "last")]),
                             !.pending = MapInsert(@, tag, b),
                             !.broadcasters = subscribe(bs2, b, "last")],
         ret |-> [kind |-> "PublisherConfirm", tag |-> tag, promise |-> Promise(b, "confirm")]]

\* The slot is taken first; its handle is unsubscribed from its entry if that
\* entry is still in the map; the new entry is inserted under the new tag.
Inner_register_pending(self) ==
    LET tag == IdSequence_next(self.delivery_tag)
        b == Len(self.broadcasters) + 1
        bs1 == Append(self.broadcasters, PromisesBroadcaster_new(tag))
        bs2 == IF self.last.kind = "Some" /\ self.last.value.tag \in DOMAIN self.pending
               THEN unsubscribe(bs1, self.pending[self.last.value.tag], self.last.value.promise)
               ELSE bs1
    IN  [self |-> [self EXCEPT !.delivery_tag = tag,
                               !.last = Some([tag |-> tag, promise |-> Promise(b, "last")]),
                               !.pending = MapInsert(@, tag, b),
                               !.broadcasters = subscribe(bs2, b, "last")],
         ret |-> [kind |-> "PublisherConfirm", tag |-> tag, promise |-> Promise(b, "confirm")]]

\* Faulty variant: the returned-message store is not queried.
Inner_complete_pending_no_message(self, success, resolver) ==
    [self EXCEPT !.broadcasters =
        resolve(@, resolver, IF success THEN ConfirmationAck(NoMessage)
                                        ELSE ConfirmationNack(NoMessage))]

Inner_complete_pending(self, success, resolver) ==
    LET returned_message == get_waiting_message(self.returned_messages)
    IN  [self EXCEPT !.returned_messages = returned_message.rest,
                     !.broadcasters =
                        resolve(@, resolver,
                                IF success THEN ConfirmationAck(returned_message.msg)
                                           ELSE ConfirmationNack(returned_message.msg))]

RECURSIVE CompleteEach(_, _, _)
CompleteEach(self, success, resolvers) ==
    IF resolvers = <<>> THEN self
    ELSE CompleteEach(Inner_complete_pending(self, success, Head(resolvers)),
                      success, Tail(resolvers))

RECURSIVE TakeOutEach(_, _)
TakeOutEach(self, tags) ==
    IF tags = <<>> THEN self ELSE TakeOutEach(TakeOut(self, Head(tags)), Tail(tags))

\* `order` is the order in which pending.drain() yields the entries.
\* Faulty variant: the entries are iterated, not drained.
Inner_drop_all_no_drain(self, success, order) ==
    CompleteEach(self, success, [i \in 1..Len(order) |-> self.pending[order[i]]])

\* Faulty variant: the returned-message store is queried once for the whole
\* batch, and only the first entry can carry a message.
Inner_drop_all_single_lookup(self, success, order) ==
    IF order = <<>> THEN self
    ELSE LET first == Inner_complete_pending(TakeOutEach(self, order), success,
                                             self.pending[order[1]])
             store == first.returned_messages
             rest == CompleteEach([first EXCEPT !.returned_messages = <<>>], success,
                                  [i \in 1..(Len(order) - 1) |-> self.pending[order[i + 1]]])
         IN  [rest EXCEPT !.returned_messages = store]

Inner_drop_all(self, success, order) ==
    CompleteEach(TakeOutEach(self, order), success,
                 [i \in 1..Len(order) |-> self.pending[order[i]]])

PreconditionFailed(success, tag, self) ==
    [kind |-> "PRECONDITIONFAILED", what |-> IF success THEN "ack" ELSE "nack",
     tag |-> tag, current |-> IdSequence_current(self.delivery_tag),
     expecting |-> DOMAIN self.pending]

\* Faulty variant: the entry is looked up with get(), not remove().
Inner_drop_pending_no_remove(self, delivery_tag_, success) ==
    IF delivery_tag_ \in DOMAIN self.pending
    THEN [self |-> Inner_complete_pending(self, success, self.pending[delivery_tag_]),
          ret |-> Ok]
    ELSE [self |-> self, ret |-> PreconditionFailed(success, delivery_tag_, self)]

\* Faulty variant: the error path also takes a message from the store.
Inner_drop_pending_eager_message(self, delivery_tag_, success) ==
    IF delivery_tag_ \in DOMAIN self.pending
    THEN [self |-> Inner_complete_pending(TakeOut(self, delivery_tag_), success,
                                          self.pending[delivery_tag_]),
          ret |-> Ok]
    ELSE [self |-> [self EXCEPT !.returned_messages = get_waiting_message(@).rest],
          ret |-> PreconditionFailed(success, delivery_tag_, self)]

Inner_drop_pending(self, delivery_tag_, success) ==
    IF delivery_tag_ \in DOMAIN self.pending
    THEN [self |-> Inner_complete_pending(TakeOut(self, delivery_tag_), success,
                                          self.pending[delivery_tag_]),
          ret |-> Ok]
    ELSE [self |-> self, ret |-> PreconditionFailed(success, delivery_tag_, self)]

\* Faulty variant: the named tag is always collected, pending or not.
CoveredWithNamed(keys, delivery_tag_) ==
    {tag \in keys : tag <= delivery_tag_} \cup {delivery_tag_}

\* Faulty variant: `<` for `<=`.
CoveredStrict(keys, delivery_tag_) == {tag \in keys : tag < delivery_tag_}

\* The keys complete_pending_before collects: those <= delivery_tag.
Covered(keys, delivery_tag_) == {tag \in keys : tag <= delivery_tag_}

\* Faulty variant: the first error is kept, not the last.
RECURSIVE DropEachFirstError(_, _, _, _)
DropEachFirstError(self, success, tags, res) ==
    IF tags = <<>> THEN [self |-> self, ret |-> res]
    ELSE LET r == Inner_drop_pending(self, Head(tags), success)
         IN  DropEachFirstError(r.self, success, Tail(tags), IF res = Ok THEN r.ret ELSE res)

\* The loop of complete_pending_before over the collected tags: `res` is
\* overwritten by every failing drop_pending and the loop goes on.
RECURSIVE DropEach(_, _, _, _)
DropEach(self, success, tags, res) ==
    IF tags = <<>> THEN [self |-> self, ret |-> res]
    ELSE LET r == Inner_drop_pending(self, Head(tags), success)
         IN  DropEach(r.self, success, Tail(tags), IF r.ret = Ok THEN res ELSE r.ret)

\* `order` is the order in which the collected HashSet yields the covered tags.
Inner_complete_pending_before(self, success, order) ==
    DropEach(self, success, order, Ok)

RECURSIVE RejectEach(_, _, _)
RejectEach(self, error, resolvers) ==
    IF resolvers = <<>> THEN self
    ELSE RejectEach([self EXCEPT !.broadcasters = reject(@, Head(resolvers), error)],
                    error, Tail(resolvers))

\* Faulty variant: the entries are iterated, not drained.
Inner_on_channel_error_no_drain(self, error, order) ==
    RejectEach(self, error, [i \in 1..Len(order) |-> self.pending[order[i]]])

\* Faulty variant: a returned message is taken for each rejected entry.
Inner_on_channel_error_takes_message(self, error, order) ==
    LET taken == IF Len(order) <= Len(self.returned_messages)
                 THEN Len(order) ELSE Len(self.returned_messages)
    IN  [RejectEach(TakeOutEach(self, order), error,
                    [i \in 1..Len(order) |-> self.pending[order[i]]])
            EXCEPT !.returned_messages = SubSeq(@, taken + 1, Len(@))]

\* pending.drain() removes each entry as the loop takes it; no other code runs
\* between the iterations, so the entries are taken out and then rejected.
Inner_on_channel_error(self, error, order) ==
    RejectEach(TakeOutEach(self, order), error,
               [i \in 1..Len(order) |-> self.pending[order[i]]])

\* ------------------------------------------------------- Acknowledgements
\* What the last call was, what it returned, and how many entries it took out
\* of the pending map.
Idle == [pc |-> "idle"]
NoProbe == [success |-> TRUE, ret |-> Ok, taken |-> 0]

Taken(self) == Cardinality((DOMAIN pending) \ (DOMAIN self.pending))
Call(op, arg, ret, taken) == [op |-> op, arg |-> arg, ret |-> ret, taken |-> taken]

Init ==
    /\ delivery_tag = Inner_new.delivery_tag
    /\ last = Inner_new.last
    /\ pending = Inner_new.pending
    /\ returned_messages = Inner_new.returned_messages
    /\ broadcasters = Inner_new.broadcasters
    /\ result = Call("new", 0, Unit, 0)
    /\ wakers = <<>>
    /\ woken = <<>>
    /\ wcall = [op |-> "default", arg |-> 0]
    /\ lock = 0
    /\ threads = [t \in Threads |-> Idle]
    /\ owed = {}
    /\ probe = NoProbe

register_pending ==
    /\ delivery_tag < MaxTag
    /\ LET r == Inner_register_pending(Self)
       IN  /\ Commit(r.self)
           /\ result' = Call("register_pending", 0, r.ret, Taken(r.self))
    /\ UNCHANGED <<wakerVars, threadVars>>

get_last_pending ==
    /\ last' = None
    /\ result' = Call("get_last_pending", 0,
                      IF last.kind = "Some" THEN Some(last.value.promise) ELSE None, 0)
    /\ UNCHANGED <<delivery_tag, pending, returned_messages, broadcasters>>
    /\ UNCHANGED <<wakerVars, threadVars>>

ack(delivery_tag_) ==
    /\ LET r == Inner_drop_pending(Self, delivery_tag_, TRUE)
       IN  /\ Commit(r.self)
           /\ result' = Call("ack", delivery_tag_, r.ret, Taken(r.self))
    /\ UNCHANGED <<wakerVars, threadVars>>

nack(delivery_tag_) ==
    /\ LET r == Inner_drop_pending(Self, delivery_tag_, FALSE)
       IN  /\ Commit(r.self)
           /\ result' = Call("nack", delivery_tag_, r.ret, Taken(r.self))
    /\ UNCHANGED <<wakerVars, threadVars>>

ack_all_pending ==
    /\ \E order \in Perms(DOMAIN pending) :
          LET self == Inner_drop_all(Self, TRUE, order)
          IN  /\ Commit(self)
              /\ result' = Call("ack_all_pending", 0, Unit, Taken(self))
    /\ UNCHANGED <<wakerVars, threadVars>>

nack_all_pending ==
    /\ \E order \in Perms(DOMAIN pending) :
          LET self == Inner_drop_all(Self, FALSE, order)
          IN  /\ Commit(self)
              /\ result' = Call("nack_all_pending", 0, Unit, Taken(self))
    /\ UNCHANGED <<wakerVars, threadVars>>

ack_all_before(delivery_tag_) ==
    /\ \E order \in Perms(Covered(DOMAIN pending, delivery_tag_)) :
          LET r == Inner_complete_pending_before(Self, TRUE, order)
          IN  /\ Commit(r.self)
              /\ result' = Call("ack_all_before", delivery_tag_, r.ret, Taken(r.self))
    /\ UNCHANGED <<wakerVars, threadVars>>

nack_all_before(delivery_tag_) ==
    /\ \E order \in Perms(Covered(DOMAIN pending, delivery_tag_)) :
          LET r == Inner_complete_pending_before(Self, FALSE, order)
          IN  /\ Commit(r.self)
              /\ result' = Call("nack_all_before", delivery_tag_, r.ret, Taken(r.self))
    /\ UNCHANGED <<wakerVars, threadVars>>

on_channel_error(error) ==
    /\ \E order \in Perms(DOMAIN pending) :
          LET self == Inner_on_channel_error(Self, error, order)
          IN  /\ Commit(self)
              /\ result' = Call("on_channel_error", error, Unit, Taken(self))
    /\ UNCHANGED <<wakerVars, threadVars>>

\* The returned-message store is filled by the frame dispatch (basic.return),
\* outside the table.  Messages are numbered in the order they arrive.
AttachedMsgs ==
    {broadcasters[b].state.msg.value :
        b \in {c \in DOMAIN broadcasters :
                  /\ broadcasters[c].state.kind \in {"Ack", "Nack"}
                  /\ broadcasters[c].state.msg.kind = "Some"}}
BufferedMsgs == {returned_messages[i] : i \in DOMAIN returned_messages}

buffer_returned_message ==
    /\ \E m \in Msgs :
          /\ m \notin AttachedMsgs \cup BufferedMsgs
          /\ \A k \in Msgs : k < m => k \in AttachedMsgs \cup BufferedMsgs
          /\ returned_messages' = Append(returned_messages, m)
    /\ UNCHANGED <<delivery_tag, last, pending, broadcasters, result>>
    /\ UNCHANGED <<wakerVars, threadVars>>

Next ==
    \/ register_pending
    \/ get_last_pending
    \/ \E t \in Tags : ack(t)
    \/ \E t \in Tags : nack(t)
    \/ ack_all_pending
    \/ nack_all_pending
    \/ \E t \in Tags : ack_all_before(t)
    \/ \E t \in Tags : nack_all_before(t)
    \/ \E e \in Errors : on_channel_error(e)
    \/ buffer_returned_message

Spec == Init /\ [][Next]_vars

\* ------------------------------------- the loop of complete_pending_before
\* The loop body of complete_pending_before, run over a given list of distinct
\* tags instead of the keys collected from the map, so that the tags may name
\* no entry: the failing branch of the loop cannot be reached through
\* ack_all_before / nack_all_before.
TagLists == UNION {Perms(S) : S \in SUBSET Tags}

complete_pending_before_loop(tags, success) ==
    /\ LET r == DropEach(Self, success, tags, Ok)
       IN  /\ Commit(r.self)
           /\ probe' = [success |-> success, ret |-> r.ret, taken |-> Taken(r.self)]
    /\ UNCHANGED <<result, wakerVars, lock, threads, owed>>

LoopNext ==
    \/ register_pending
    \/ \E tags \in TagLists, success \in BOOLEAN : complete_pending_before_loop(tags, success)

LoopSpec == Init /\ [][LoopNext]_vars

\* ------------------------------------------- the table shared by threads
\* Acknowledgements is a clone-able handle on Arc<Mutex<Inner>>: publisher
\* threads call register_pending / get_last_pending, the dispatch thread calls
\* the settling methods.  Every method is `self.0.lock().<method>(..)`: the
\* guard is a temporary of that statement, so the mutex is taken before the
\* Inner method starts and released after it has returned.  Here the Inner
\* methods run step by step, and the steps of different threads interleave as
\* far as the mutex lets them.

\* Faulty variant: lock() returns although another thread holds the mutex.
Mutex_lock_no_exclusion(t) == TRUE

\* parking_lot::Mutex::lock() returns when no thread holds the mutex; it is not
\* re-entrant.
Mutex_lock(t) == lock = 0

\* The frame of a call: the method, its arguments, the table as it was when the
\* lock was taken, and the locals of the Inner method (`cur` is the tag
\* drop_pending is called with).
Frame(op, arg, success) ==
    [pc |-> op, op |-> op, arg |-> arg, success |-> success, before |-> Self,
     id |-> 0, order |-> <<>>, todo |-> <<>>, cur |-> arg, resolver |-> 0, res |-> Ok]

Goto(t, frame) == threads' = [threads EXCEPT ![t] = frame]
TableKept == UNCHANGED <<delivery_tag, last, pending, returned_messages, broadcasters>>
Elsewhere == UNCHANGED <<result, wakerVars, owed, probe>>

\* Acknowledgements::<method>: self.0.lock()
call(t, op, arg, success) ==
    /\ threads[t] = Idle
    /\ Mutex_lock(t)
    /\ lock' = t
    /\ Goto(t, Frame(op, arg, success))
    /\ TableKept /\ Elsewhere

call_register_pending(t) ==
    /\ delivery_tag < MaxTag
    /\ call(t, "register_pending", 0, TRUE)

\* the end of the statement: the guard is dropped
unlock(t) ==
    /\ threads[t].pc = "unlock"
    /\ lock' = 0
    /\ Goto(t, Idle)
    /\ TableKept /\ Elsewhere

\* IdSequence::next(&mut self): reads the id ...
IdSequence_next_read(t) ==
    /\ threads[t].pc = "register_pending"
    /\ Goto(t, [threads[t] EXCEPT !.id = delivery_tag, !.pc = "next_write"])
    /\ UNCHANGED lock /\ TableKept /\ Elsewhere

\* ... and stores and returns the next one.
IdSequence_next_write(t) ==
    /\ threads[t].pc = "next_write"
    /\ delivery_tag' = IdSequence_next(threads[t].id)
    /\ Goto(t, [threads[t] EXCEPT !.cur = IdSequence_next(threads[t].id), !.pc = "insert"])
    /\ UNCHANGED <<lock, last, pending, returned_messages, broadcasters>> /\ Elsewhere

\* Inner::register_pending after the tag is known.
Inner_register_pending_insert(self, tag) ==
    LET b == Len(self.broadcasters) + 1
        bs1 == Append(self.broadcasters, PromisesBroadcaster_new(tag))
        bs2 == IF self.last.kind = "Some" /\ self.last.value.tag \in DOMAIN self.pending
               THEN unsubscribe(bs1, self.pending[self.last.value.tag], self.last.value.promise)
               ELSE bs1
    IN  [self |-> [self EXCEPT !.last = Some([tag |-> tag, promise |-> Promise(b, "last")]),
                               !.pending = MapInsert(@, tag, b),
                               !.broadcasters = subscribe(bs2, b, "last")],
         ret |-> [kind |-> "PublisherConfirm", tag |-> tag, promise |-> Promise(b, "confirm")]]

register_pending_insert(t) ==
    /\ threads[t].pc = "insert"
    /\ LET r == Inner_register_pending_insert(Self, threads[t].cur)
       IN  /\ Commit(r.self)
           /\ Goto(t, [threads[t] EXCEPT !.res = r.ret, !.pc = "unlock"])
    /\ UNCHANGED lock /\ Elsewhere

get_last_pending_take(t) ==
    /\ threads[t].pc = "get_last_pending"
    /\ last' = None
    /\ Goto(t, [threads[t] EXCEPT
                    !.res = IF last.kind = "Some" THEN Some(last.value.promise) ELSE None,
                    !.pc = "unlock"])
    /\ UNCHANGED <<lock, delivery_tag, pending, returned_messages, broadcasters>> /\ Elsewhere

\* Where a settling method goes on after one tag / one resolver is done with:
\* the next element of its loop, or the end of the method.
Continue(frame) ==
    IF frame.todo = <<>> THEN [frame EXCEPT !.pc = "unlock"]
    ELSE IF frame.op = "complete_pending_before"
         THEN [frame EXCEPT !.cur = Head(frame.todo), !.todo = Tail(frame.todo),
                            !.pc = "drop_pending"]
         ELSE [frame EXCEPT !.resolver = Head(frame.todo), !.todo = Tail(frame.todo),
                            !.pc = "complete_pending"]

\* Inner::drop_pending: self.pending.remove(&delivery_tag), or the error.
drop_pending_remove(t) ==
    LET frame == threads[t]
    IN  /\ frame.pc = "drop_pending"
        /\ IF frame.cur \in DOMAIN pending
           THEN /\ Commit(TakeOut(Self, frame.cur))
                /\ Goto(t, [frame EXCEPT !.resolver = pending[frame.cur],
                                         !.pc = "complete_pending"])
           ELSE /\ TableKept
                /\ Goto(t, Continue([frame EXCEPT
                                        !.res = PreconditionFailed(frame.success, frame.cur, Self)]))
        /\ UNCHANGED lock /\ Elsewhere

\* Inner::complete_pending: get_waiting_message() and resolver.resolve(..).
complete_pending(t) ==
    LET frame == threads[t]
    IN  /\ frame.pc = "complete_pending"
        /\ Commit(Inner_complete_pending(Self, frame.success, frame.resolver))
        /\ Goto(t, Continue(frame))
        /\ UNCHANGED lock /\ Elsewhere

\* Inner::complete_pending_before: the covered keys are collected into a set.
complete_pending_before_collect(t) ==
    LET frame == threads[t]
    IN  /\ frame.pc = "complete_pending_before"
        /\ \E order \in Perms(Covered(DOMAIN pending, frame.arg)) :
              Goto(t, Continue([frame EXCEPT !.order = order, !.todo = order]))
        /\ UNCHANGED lock /\ TableKept /\ Elsewhere

\* Inner::drop_all: the map is drained into a Vec of resolvers.
drop_all_drain(t) ==
    LET frame == threads[t]
    IN  /\ frame.pc = "drop_all"
        /\ \E order \in Perms(DOMAIN pending) :
              /\ Commit(TakeOutEach(Self, order))
              /\ Goto(t, Continue([frame EXCEPT
                                      !.order = order,
                                      !.todo = [i \in 1..Len(order) |-> pending[order[i]]]]))
        /\ UNCHANGED lock /\ Elsewhere

\* Inner::on_channel_error: pending.drain() yields (and removes) the next entry.
on_channel_error_drain(t) ==
    LET frame == threads[t]
    IN  /\ frame.pc = "on_channel_error"
        /\ IF pending = EmptyMap
           THEN /\ TableKept
                /\ Goto(t, [frame EXCEPT !.pc = "unlock"])
           ELSE \E tag \in DOMAIN pending :
                    /\ Commit(TakeOut(Self, tag))
                    /\ Goto(t, [frame EXCEPT !.order = Append(@, tag),
                                             !.resolver = pending[tag], !.pc = "reject"])
        /\ UNCHANGED lock /\ Elsewhere

\* resolver.reject(error.clone())
on_channel_error_reject(t) ==
    LET frame == threads[t]
    IN  /\ frame.pc = "reject"
        /\ Commit([Self EXCEPT !.broadcasters = reject(@, frame.resolver, frame.arg)])
        /\ Goto(t, [frame EXCEPT !.pc = "on_channel_error"])
        /\ UNCHANGED lock /\ Elsewhere

\* resolve() wakes the subscribers of the resolved value on the calling thread.
\* A subscriber's wake callback that calls a method of the same table reaches
\* self.0.lock() inside resolve(): the thread waits there for the mutex.
subscriber_callback(t) ==
    LET frame == threads[t]
    IN  /\ frame.pc = "complete_pending"
        /\ Commit(Inner_complete_pending(Self, frame.success, frame.resolver))
        /\ Goto(t, [frame EXCEPT !.pc = "callback_lock"])
        /\ UNCHANGED lock /\ Elsewhere

\* The returned-message store is filled on the dispatch thread, between its
\* calls on the table.
dispatch_returned_message ==
    /\ \A t \in Dispatchers : threads[t] = Idle
    /\ buffer_returned_message

ThreadsNext ==
    \/ \E t \in Publishers : call_register_pending(t)
    \/ \E t \in Publishers : call(t, "get_last_pending", 0, TRUE)
    \/ \E t \in Dispatchers, tag \in Tags, success \in BOOLEAN :
          call(t, "drop_pending", tag, success)
    \/ \E t \in Dispatchers, tag \in Tags, success \in BOOLEAN :
          call(t, "complete_pending_before", tag, success)
    \/ \E t \in Dispatchers, success \in BOOLEAN : call(t, "drop_all", 0, success)
    \/ \E t \in Dispatchers, e \in Errors : call(t, "on_channel_error", e, TRUE)
    \/ \E t \in Threads :
          \/ IdSequence_next_read(t)
          \/ IdSequence_next_write(t)
          \/ register_pending_insert(t)
          \/ get_last_pending_take(t)
          \/ drop_pending_remove(t)
          \/ complete_pending(t)
          \/ complete_pending_before_collect(t)
          \/ drop_all_drain(t)
          \/ on_channel_error_drain(t)
          \/ on_channel_error_reject(t)
          \/ subscriber_callback(t)
          \/ unlock(t)
    \/ dispatch_returned_message

ThreadsSpec == Init /\ [][ThreadsNext]_vars

\* ----------------------------------------------------------------- Wakers
\* A Waker value is identified by its (data, vtable) pair; two different Waker
\* values may wake the same task.
Wakers == 1..NumWakers
task_of(waker) == IF waker <= 2 THEN 1 ELSE waker - 1

\* Waker::will_wake: true when both have the same (data, vtable) pair; it may
\* be false for two wakers that wake the same task.
will_wake(w, waker) == w = waker

\* Faulty variant: no will_wake check.
Wakers_register_always_push(inner, waker) == Append(inner, waker)

Wakers_register(inner, waker) ==
    IF \E i \in DOMAIN inner : will_wake(inner[i], waker)
    THEN inner
    ELSE Append(inner, waker)

register(waker) ==
    /\ wakers' = Wakers_register(wakers, waker)
    /\ wcall' = [op |-> "register", arg |-> waker]
    /\ UNCHANGED <<woken>>
    /\ UNCHANGED <<ackVars, threadVars>>

\* Faulty variant: the Vec is iterated, not drained.
Wakers_wake_no_drain(inner) == [woken |-> inner, inner |-> inner]

\* drain(..) empties the Vec and wakes every element in order.
Wakers_wake(inner) == [woken |-> inner, inner |-> <<>>]

wake ==
    /\ woken' = Wakers_wake(wakers).woken
    /\ wakers' = Wakers_wake(wakers).inner
    /\ wcall' = [op |-> "wake", arg |-> 0]
    /\ UNCHANGED <<ackVars, threadVars>>

WakersNext ==
    \/ \E w \in Wakers : register(w)
    \/ wake

WakersSpec == Init /\ [][WakersNext]_vars

\* ------------------------------------------ the registry shared by threads
\* Wakers is a clone-able handle on Arc<Mutex<Vec<Waker>>>; any thread may call
\* register() or wake().  Both take the mutex through lock_inner() and hold
\* the guard to the end of the method, wake() to the end of its loop.  `owed`
\* is history: the wakers passed to a register() call that has returned and
\* not notified since.

\* Faulty variant: lock_inner() returns although another thread holds the mutex.
lock_inner_no_exclusion(t) == TRUE

\* std::sync::Mutex::lock(), a poisoned mutex being taken all the same.
lock_inner(t) == lock = 0

WakerFrame(op, waker) == [pc |-> op, op |-> op, waker |-> waker, todo |-> <<>>]
TableElsewhere == UNCHANGED <<ackVars, wcall, probe>>

\* Wakers::register: let mut inner = self.lock_inner();
call_register(t, waker) ==
    /\ threads[t] = Idle
    /\ lock_inner(t)
    /\ lock' = t
    /\ Goto(t, WakerFrame("register", waker))
    /\ UNCHANGED <<wakers, woken, owed>> /\ TableElsewhere

\* the for loop over inner.iter(): return if some w.will_wake(waker)
register_scan(t) ==
    /\ threads[t].pc = "register"
    /\ Goto(t, [threads[t] EXCEPT !.pc =
                    IF \E i \in DOMAIN wakers : will_wake(wakers[i], threads[t].waker)
                    THEN "return" ELSE "push"])
    /\ UNCHANGED <<lock, wakers, woken, owed>> /\ TableElsewhere

\* inner.push(waker.clone())
register_push(t) ==
    /\ threads[t].pc = "push"
    /\ wakers' = Append(wakers, threads[t].waker)
    /\ Goto(t, [threads[t] EXCEPT !.pc = "return"])
    /\ UNCHANGED <<lock, woken, owed>> /\ TableElsewhere

\* register() returns and the guard is dropped
register_return(t) ==
    /\ threads[t].pc = "return"
    /\ lock' = 0
    /\ owed' = owed \cup {threads[t].waker}
    /\ Goto(t, Idle)
    /\ UNCHANGED <<wakers, woken>> /\ TableElsewhere

\* Wakers::wake: self.lock_inner().drain(..) takes every element out of the Vec
call_wake(t) ==
    /\ threads[t] = Idle
    /\ lock_inner(t)
    /\ lock' = t
    /\ Goto(t, [WakerFrame("wake", 0) EXCEPT !.todo = wakers])
    /\ wakers' = <<>>
    /\ woken' = <<>>
    /\ UNCHANGED owed /\ TableElsewhere

\* w.wake() for the next drained element
wake_one(t) ==
    /\ threads[t].pc = "wake" /\ threads[t].todo # <<>>
    /\ woken' = Append(woken, Head(threads[t].todo))
    /\ owed' = owed \ {Head(threads[t].todo)}
    /\ Goto(t, [threads[t] EXCEPT !.todo = Tail(@)])
    /\ UNCHANGED <<lock, wakers>> /\ TableElsewhere

\* the loop is over and the guard is dropped
wake_return(t) ==
    /\ threads[t].pc = "wake" /\ threads[t].todo = <<>>
    /\ lock' = 0
    /\ Goto(t, Idle)
    /\ UNCHANGED <<wakers, woken, owed>> /\ TableElsewhere

WakerThreadsNext ==
    \E t \in Threads :
        \/ \E w \in Wakers : call_register(t, w)
        \/ register_scan(t)
        \/ register_push(t)
        \/ register_return(t)
        \/ call_wake(t)
        \/ wake_one(t)
        \/ wake_return(t)

WakerThreadsSpec == Init /\ [][WakerThreadsNext]_vars

\* ------------------------------------------------------------ properties
\* A step that is a call `op` on the table.  buffer_returned_message leaves
\* `result` alone; it is the only step that lengthens the store.
Called(op) == result'.op = op /\ Len(returned_messages') <= Len(returned_messages)
CalledAckOrNack == Called("ack") \/ Called("nack")
TableUnchanged == UNCHANGED <<delivery_tag, last, pending, returned_messages, broadcasters>>

\* Entry `k` of the pending map was taken out and resolved/rejected as `kind`
\* by this step, having been unresolved before it.
SettledAs(k, kind) ==
    /\ k \notin DOMAIN pending'
    /\ broadcasters[pending[k]].state = Unresolved
    /\ broadcasters'[pending[k]].state.kind = kind
    /\ broadcasters'[pending[k]].settled = 1
    /\ broadcasters'[pending[k]].removed = 1

\* Entry `k` of the pending map is left in it, untouched and unresolved.
LeftPending(k) ==
    /\ k \in DOMAIN pending'
    /\ pending'[k] = pending[k]
    /\ broadcasters'[pending[k]] = broadcasters[pending[k]]
    /\ broadcasters'[pending[k]].state = Unresolved

\* Entry `k` of the pending map is still in it, under the same broadcaster, and
\* has not been settled.
KeptPending(k) ==
    /\ k \in DOMAIN pending'
    /\ pending'[k] = pending[k]
    /\ broadcasters'[pending[k]].state = Unresolved
    /\ broadcasters'[pending[k]].settled = 0
    /\ broadcasters'[pending[k]].removed = 0

\* Broadcasters that were not in the pending map are not touched by the step.
OthersUntouched ==
    \A b \in DOMAIN broadcasters :
        (\A k \in DOMAIN pending : pending[k] # b) => broadcasters'[b] = broadcasters[b]

\* A single ack/nack of a tag that is pending succeeds and resolves that entry.
OwnAckResolves ==
    (CalledAckOrNack /\ result'.arg \in DOMAIN pending) =>
        /\ result'.ret = Ok
        /\ SettledAs(result'.arg, IF result'.op = "ack" THEN "Ack" ELSE "Nack")
        /\ \A k \in (DOMAIN pending) \ {result'.arg} : LeftPending(k)

\* C1: ack_all_before(t) (resp. nack_all_before(t)) removes and resolves as Ack
\* (resp. Nack) exactly the pending entries with tag <= t, leaves every pending
\* entry with tag > t in the map, unresolved, and such an entry is afterwards
\* resolved by its own ack/nack.
C1_CumulativeAck ==
    [][ /\ (Called("ack_all_before") \/ Called("nack_all_before")) =>
              /\ \A k \in DOMAIN pending :
                    IF k <= result'.arg
                    THEN SettledAs(k, IF result'.op = "ack_all_before" THEN "Ack" ELSE "Nack")
                    ELSE LeftPending(k)
              /\ DOMAIN pending' = {k \in DOMAIN pending : k > result'.arg}
              /\ OthersUntouched
        /\ OwnAckResolves ]_vars

\* ack_all_before(2) has just resolved an entry and left tag 3 pending, tag 2
\* itself having been settled before the call.
C1_Witness ==
    /\ result.op = "ack_all_before" /\ result.arg = 2 /\ result.taken = 1
    /\ DOMAIN pending = {3}
    /\ broadcasters[1].state.kind = "Ack"
    /\ broadcasters[2].state.kind = "Nack"

\* C2: ack(tag)/nack(tag) for a tag with no entry in the pending map returns the
\* precondition-failed error naming that tag and leaves the pending map, the
\* slot, the tag sequence, the returned-message store and every entry as before.
C2_UnknownTag ==
    [][ (CalledAckOrNack /\ result'.arg \notin DOMAIN pending) =>
            /\ result'.ret.kind = "PRECONDITIONFAILED"
            /\ result'.ret.tag = result'.arg
            /\ result'.ret.current = IdSequence_current(delivery_tag)
            /\ result'.ret.expecting = DOMAIN pending
            /\ result'.taken = 0
            /\ TableUnchanged ]_vars

\* An ack of an unknown tag has failed while entries are pending and a returned
\* message is buffered.
C2_Witness ==
    /\ result.op = "ack" /\ result.ret.kind = "PRECONDITIONFAILED"
    /\ DOMAIN pending # {}
    /\ returned_messages # <<>>
    /\ last.kind = "Some"

\* C3: on_channel_error(e) rejects every entry still pending with e (none is
\* resolved as Ack or Nack) and leaves the pending map empty; an ack/nack that
\* follows it, for any tag, returns the unknown-tag error and resolves nothing.
C3_ChannelErrorDrainsAll ==
    [][ /\ Called("on_channel_error") =>
              /\ pending' = EmptyMap
              /\ \A k \in DOMAIN pending :
                    /\ SettledAs(k, "Rejected")
                    /\ broadcasters'[pending[k]].state = Rejected(result'.arg)
              /\ OthersUntouched
              /\ returned_messages' = returned_messages
        /\ (result.op = "on_channel_error" /\ CalledAckOrNack) =>
              /\ result'.ret.kind = "PRECONDITIONFAILED"
              /\ TableUnchanged ]_vars

\* on_channel_error has just rejected two entries, after an earlier ack.
C3_Witness ==
    /\ result.op = "on_channel_error" /\ result.taken = 2
    /\ pending = EmptyMap
    /\ \E b \in DOMAIN broadcasters : broadcasters[b].state.kind = "Ack"
    /\ Cardinality({b \in DOMAIN broadcasters :
                       broadcasters[b].state = Rejected(result.arg)}) = 2

\* C4: every entry is taken out of the map at most once and settled at most
\* once; once settled its outcome never changes; an ack/nack naming the tag of
\* a settled entry gets the unknown-tag error.
C4_ExactlyOnce ==
    [][ /\ \A b \in DOMAIN broadcasters' :
              /\ broadcasters'[b].settled <= 1
              /\ broadcasters'[b].removed <= 1
              /\ (broadcasters'[b].state # Unresolved) <=> (broadcasters'[b].settled = 1)
        /\ \A b \in DOMAIN broadcasters :
              broadcasters[b].state # Unresolved =>
                  broadcasters'[b].state = broadcasters[b].state
        /\ (/\ CalledAckOrNack
            /\ \E b \in DOMAIN broadcasters :
                  /\ broadcasters[b].tag = result'.arg
                  /\ broadcasters[b].state # Unresolved) =>
              /\ result'.ret.kind = "PRECONDITIONFAILED"
              /\ broadcasters' = broadcasters ]_vars

\* A nack naming a tag that was already acked has been refused.
C4_Witness ==
    /\ result.op = "nack" /\ result.ret.kind = "PRECONDITIONFAILED"
    /\ \E b \in DOMAIN broadcasters :
          /\ broadcasters[b].tag = result.arg
          /\ broadcasters[b].state.kind = "Ack"
          /\ broadcasters[b].settled = 1

\* C5: register_pending() puts the new entry's handle in the slot and
\* de-registers the superseded slot handle from its entry, which stays in the
\* map and is resolved by its own ack/nack; get_last_pending() returns the
\* slot's handle, which is always the handle on the most recent entry.
C5_SlotSupersession ==
    [][ /\ Called("register_pending") =>
              /\ last' = Some([tag |-> result'.ret.tag,
                               promise |-> Promise(Len(broadcasters'), "last")])
              /\ result'.ret.tag \in DOMAIN pending'
              /\ pending'[result'.ret.tag] = Len(broadcasters')
              /\ broadcasters'[Len(broadcasters')].subs = {"confirm", "last"}
              /\ (last.kind = "Some" /\ last.value.tag \in DOMAIN pending) =>
                    /\ last.value.tag \in DOMAIN pending'
                    /\ pending'[last.value.tag] = pending[last.value.tag]
                    /\ broadcasters'[pending[last.value.tag]].state = Unresolved
                    /\ last.value.promise.h \notin broadcasters'[pending[last.value.tag]].subs
        /\ Called("get_last_pending") =>
              /\ result'.ret = IF last.kind = "Some" THEN Some(last.value.promise) ELSE None
              /\ last' = None
        /\ last'.kind = "Some" =>
              /\ last'.value.tag = IdSequence_current(delivery_tag')
              /\ last'.value.promise = Promise(Len(broadcasters'), "last")
        /\ OwnAckResolves ]_vars

\* Two register_pending() calls in a row: the first entry is still pending and
\* has lost its slot handle, the slot holds the second entry's.
C5_Witness ==
    /\ result.op = "register_pending" /\ result.ret.tag = 2
    /\ DOMAIN pending = {1, 2}
    /\ broadcasters[1].subs = {"confirm"}
    /\ last = Some([tag |-> 2, promise |-> Promise(2, "last")])

\* C6: when ack(tag)/nack(tag) resolves a pending entry, the Confirmation
\* carries the oldest buffered returned message if one is buffered, and that
\* message is consumed; it carries none if no message is buffered.
C6_ReturnedMessage ==
    [][ (CalledAckOrNack /\ result'.arg \in DOMAIN pending) =>
            IF returned_messages # <<>>
            THEN /\ broadcasters'[pending[result'.arg]].state.msg = Some(Head(returned_messages))
                 /\ returned_messages' = Tail(returned_messages)
            ELSE /\ broadcasters'[pending[result'.arg]].state.msg = NoMessage
                 /\ returned_messages' = returned_messages ]_vars

\* An ack has attached the buffered message; an earlier one carried none.
C6_Witness ==
    /\ result.op = "ack" /\ result.ret = Ok
    /\ \E b \in DOMAIN broadcasters :
          /\ broadcasters[b].tag = result.arg
          /\ broadcasters[b].state = ConfirmationAck(Some(1))
    /\ \E b \in DOMAIN broadcasters : broadcasters[b].state = ConfirmationAck(NoMessage)

\* C7: in every state where the pending map is empty, get_last_pending()
\* returns nothing.
C7_NothingWhenNoneOutstanding ==
    [][ (Called("get_last_pending") /\ pending = EmptyMap) => result'.ret = None ]_vars

\* C9: ack_all_pending() (resp. nack_all_pending()) takes every entry out of the
\* pending map whatever its tag and resolves each as Ack (resp. Nack); the map
\* is empty afterwards and the call returns nothing that can be an error.
C9_FullDrain ==
    [][ (Called("ack_all_pending") \/ Called("nack_all_pending")) =>
            /\ pending' = EmptyMap
            /\ \A k \in DOMAIN pending :
                  SettledAs(k, IF result'.op = "ack_all_pending" THEN "Ack" ELSE "Nack")
            /\ OthersUntouched
            /\ result'.ret = Unit
            /\ result'.taken = Cardinality(DOMAIN pending) ]_vars

\* nack_all_pending has just resolved the two entries that were pending.
C9_Witness ==
    /\ result.op = "nack_all_pending" /\ result.taken = 2
    /\ pending = EmptyMap
    /\ Cardinality({b \in DOMAIN broadcasters : broadcasters[b].state.kind = "Nack"}) = 2

\* C10: each register_pending() is issued a tag strictly greater than the tag
\* of every earlier call, so the new tag is not in the pending map, the insert
\* overwrites nothing, and no unsettled entry is ever missing from the map.
C10_TagUniqueness ==
    [][ /\ Called("register_pending") =>
              /\ \A b \in DOMAIN broadcasters : broadcasters[b].tag < result'.ret.tag
              /\ result'.ret.tag \notin DOMAIN pending
              /\ \A k \in DOMAIN pending : KeptPending(k)
              /\ DOMAIN pending' = (DOMAIN pending) \cup {result'.ret.tag}
              /\ broadcasters'[Len(broadcasters')].tag = result'.ret.tag
        /\ \A b \in DOMAIN broadcasters' :
              broadcasters'[b].state = Unresolved =>
                  /\ broadcasters'[b].tag \in DOMAIN pending'
                  /\ pending'[broadcasters'[b].tag] = b ]_vars

\* The third tag has been issued while an earlier one is still pending and
\* another has been settled.
C10_Witness ==
    /\ result.op = "register_pending" /\ result.ret.tag = 3
    /\ DOMAIN pending = {2, 3}
    /\ broadcasters[1].state.kind = "Ack"

\* C8 as stated: the registry never holds two handles that wake the same task,
\* and a wake() notifies no task twice.
C8_OnePerTask ==
    [][ /\ \A i, j \in DOMAIN wakers' :
              i # j => task_of(wakers'[i]) # task_of(wakers'[j])
        /\ \A i, j \in DOMAIN woken' :
              i # j => task_of(woken'[i]) # task_of(woken'[j]) ]_vars

\* C8 (amended): registering a handle for which will_wake() holds against one
\* already in the registry does not add an entry, so the registry never holds
\* two such handles, holds the handle just registered exactly once, and the
\* next wake() notifies every handle held exactly once.
C8_WaiterDedup ==
    [][ /\ wcall'.op = "register" =>
              /\ (\E i \in DOMAIN wakers : will_wake(wakers[i], wcall'.arg)) => wakers' = wakers
              /\ Cardinality({i \in DOMAIN wakers' : will_wake(wakers'[i], wcall'.arg)}) = 1
              /\ woken' = woken
        /\ \A i, j \in DOMAIN wakers' : i # j => ~will_wake(wakers'[i], wakers'[j])
        /\ wcall'.op = "wake" =>
              /\ woken' = wakers
              /\ wakers' = <<>>
              /\ \A i, j \in DOMAIN woken' : i # j => ~will_wake(woken'[i], woken'[j]) ]_vars

\* The handle registered last was already held: the registry still holds it
\* once, beside another task's handle.
C8_Witness ==
    /\ wcall = [op |-> "register", arg |-> 1]
    /\ wakers = <<1, 3>>

\* The broadcasters a step took out of the pending map, and those of them whose
\* confirmation carries a returned message.
TakenOut == {pending[k] : k \in (DOMAIN pending) \ (DOMAIN pending')}
WithMessage(bs) == {b \in bs : broadcasters'[b].state.msg.kind = "Some"}
Min(a, b) == IF a <= b THEN a ELSE b

CalledBatch ==
    \/ Called("ack_all_pending") \/ Called("nack_all_pending")
    \/ Called("ack_all_before") \/ Called("nack_all_before")

\* C14: a batch operation (drain-as-Ack/Nack, cumulative ack/nack) queries the
\* returned-message store once per entry it resolves: resolving k entries with
\* m messages buffered consumes the min(k, m) oldest messages, each of them is
\* attached to a different one of the k confirmations, and the other
\* confirmations carry no message.
C14_PerEntryLookup ==
    [][ CalledBatch =>
            LET k == Cardinality(TakenOut)
                m == Len(returned_messages)
                n == Min(k, m)
            IN  /\ k = result'.taken
                /\ returned_messages' = SubSeq(returned_messages, n + 1, m)
                /\ \A b \in TakenOut : broadcasters'[b].state.kind \in {"Ack", "Nack"}
                /\ Cardinality(WithMessage(TakenOut)) = n
                /\ \A i \in 1..n :
                      Cardinality({b \in TakenOut :
                          broadcasters'[b].state.msg = Some(returned_messages[i])}) = 1 ]_vars

\* ack_all_pending has just resolved three entries with two messages buffered:
\* two confirmations carry one message each, the third none.
C14_Witness ==
    /\ result.op = "ack_all_pending" /\ result.taken = 3
    /\ returned_messages = <<>>
    /\ \E b1, b2, b3 \in DOMAIN broadcasters :
          /\ broadcasters[b1].state = ConfirmationAck(Some(1))
          /\ broadcasters[b2].state = ConfirmationAck(Some(2))
          /\ broadcasters[b3].state = ConfirmationAck(NoMessage)

\* C16: register_pending() adds exactly one entry to the pending map, under the
\* new tag, and points the slot at that entry; every entry that was pending is
\* still pending under the same broadcaster, unsettled and not taken out, the
\* returned-message store is as before, and the only change to an existing
\* broadcaster is that the superseded entry loses the slot's subscriber.
C16_RegisterFrame ==
    [][ Called("register_pending") =>
            LET new == result'.ret.tag
                superseded == IF last.kind = "Some" /\ last.value.tag \in DOMAIN pending
                              THEN {pending[last.value.tag]} ELSE {}
            IN  /\ Cardinality(DOMAIN pending') = Cardinality(DOMAIN pending) + 1
                /\ (DOMAIN pending') \ (DOMAIN pending) = {new}
                /\ Len(broadcasters') = Len(broadcasters) + 1
                /\ pending'[new] = Len(broadcasters')
                /\ last'.value.tag = new /\ last'.value.promise.b = pending'[new]
                /\ returned_messages' = returned_messages
                /\ \A k \in DOMAIN pending : k \in DOMAIN pending' /\ pending'[k] = pending[k]
                /\ \A b \in DOMAIN broadcasters :
                      IF b \in superseded
                      THEN broadcasters'[b] =
                              [broadcasters[b] EXCEPT !.subs = @ \ {last.value.promise.h}]
                      ELSE broadcasters'[b] = broadcasters[b]
                /\ \A b \in superseded :
                      /\ broadcasters'[b].state = Unresolved
                      /\ "confirm" \in broadcasters'[b].subs ]_vars

\* The third register_pending() superseded the slot handle of tag 2 while tag 1
\* was settled and a returned message was buffered: tag 2 is still pending and
\* unresolved, the message is still in the store.
C16_Witness ==
    /\ result.op = "register_pending" /\ result.ret.tag = 3
    /\ DOMAIN pending = {2, 3}
    /\ broadcasters[1].state.kind = "Nack"
    /\ broadcasters[2].state = Unresolved /\ broadcasters[2].subs = {"confirm"}
    /\ returned_messages = <<1>>

\* C17: the table takes buffered returned messages only while resolving an
\* entry as Ack/Nack: register_pending(), get_last_pending(), on_channel_error()
\* and any ack/nack, cumulative ack/nack or drain that resolves no entry leave
\* the returned-message store exactly as it was.
C17_StoreFrame ==
    [][ /\ (Called("register_pending") \/ Called("get_last_pending")
              \/ Called("on_channel_error")) => returned_messages' = returned_messages
        /\ ((CalledAckOrNack \/ CalledBatch) /\ result'.taken = 0) =>
              returned_messages' = returned_messages
        /\ returned_messages' # returned_messages =>
              \/ Len(returned_messages') > Len(returned_messages)
              \/ \E b \in TakenOut : broadcasters'[b].state.kind \in {"Ack", "Nack"} ]_vars

\* on_channel_error has just rejected two entries while a returned message was
\* buffered; the message is still in the store.
C17_Witness ==
    /\ result.op = "on_channel_error" /\ result.taken = 2
    /\ returned_messages = <<1>>
    /\ Cardinality({b \in DOMAIN broadcasters : broadcasters[b].state.kind = "Rejected"}) = 2

\* C19: ack_all_before(t) and nack_all_before(t) return success for every t in
\* every reachable state, since the tags they resolve are taken from the
\* pending map itself; a call that covers no pending entry returns success and
\* leaves the table (map, slot, tag sequence, store, entries) unchanged.
C19_CumulativeSucceeds ==
    [][ (Called("ack_all_before") \/ Called("nack_all_before")) =>
            /\ result'.ret = Ok
            /\ result'.taken = Cardinality({k \in DOMAIN pending : k <= result'.arg})
            /\ (\A k \in DOMAIN pending : k > result'.arg) =>
                  /\ result'.taken = 0
                  /\ TableUnchanged ]_vars

\* ack_all_before(1) has returned success without resolving anything: tag 1 was
\* settled before the call, tags 2 and 3 are still pending.
C19_Witness ==
    /\ result = Call("ack_all_before", 1, Ok, 0)
    /\ DOMAIN pending = {2, 3}
    /\ broadcasters[1].state.kind = "Nack"

\* How many entries of the sequence `s` are the waker `w`.
Count(s, w) == Cardinality({i \in DOMAIN s : s[i] = w})

\* C18: wake() notifies every handle registered at the time of the call exactly
\* once, notifies no other handle, and leaves the registry empty; a wake() that
\* follows a wake() with no register() in between notifies nobody; a handle
\* registered after a wake() is held and is notified by the next wake().
C18_WakeClears ==
    [][ /\ wcall'.op = "wake" =>
              /\ wakers' = <<>>
              /\ \A w \in Wakers : Count(woken', w) = Count(wakers, w) /\ Count(woken', w) <= 1
              /\ wcall.op = "wake" => woken' = <<>>
              /\ wcall.op = "register" => Count(woken', wcall.arg) = 1
        /\ wcall'.op = "register" =>
              /\ Count(wakers', wcall'.arg) = 1
              /\ wcall.op = "wake" => wakers' = <<wcall'.arg>> ]_vars

\* wake() has just notified the two handles registered since the previous
\* wake(), and the registry is empty.
C18_Witness ==
    /\ wcall.op = "wake"
    /\ woken = <<3, 1>>
    /\ wakers = <<>>

\* The positions of the list whose tag names no entry, so that drop_pending fails.
Failing(tags) == {i \in DOMAIN tags : tags[i] \notin DOMAIN pending}
Last(S) == CHOOSE i \in S : \A j \in S : j <= i

\* C15: when drop_pending fails for some of the tags the loop of
\* complete_pending_before goes over, the loop still resolves every other tag
\* of the list that has an entry, and returns the error of the last failing tag
\* (not the first, and not success); it returns success when no tag fails.
C15_LastErrorWins ==
    \A tags \in TagLists, success \in BOOLEAN :
        LET r == DropEach(Self, success, tags, Ok)
            kind == IF success THEN "Ack" ELSE "Nack"
        IN  /\ \A i \in DOMAIN tags :
                  tags[i] \in DOMAIN pending =>
                      /\ r.self.broadcasters[pending[tags[i]]].state.kind = kind
                      /\ r.self.broadcasters[pending[tags[i]]].settled = 1
            /\ DOMAIN r.self.pending = (DOMAIN pending) \ {tags[i] : i \in DOMAIN tags}
            /\ IF Failing(tags) = {}
               THEN r.ret = Ok
               ELSE LET l == Last(Failing(tags))
                    IN  /\ r.ret.kind = "PRECONDITIONFAILED"
                        /\ r.ret.tag = tags[l]
                        /\ r.ret.expecting = (DOMAIN pending) \ {tags[i] : i \in 1..l}

\* The loop has resolved tag 1 as Nack and returned the error of tag 3, which
\* was never issued, tag 2 having been resolved by an earlier run: the failing
\* tags did not stop the loop.
C15_Witness ==
    /\ delivery_tag = 2 /\ pending = EmptyMap
    /\ probe.taken = 1 /\ ~probe.success
    /\ probe.ret.kind = "PRECONDITIONFAILED" /\ probe.ret.tag = 3
    /\ probe.ret.expecting = {}
    /\ broadcasters[1].state.kind = "Nack" /\ broadcasters[2].state.kind = "Ack"

\* The thread is inside resolve() / reject(), or about to call it.
Resolving(t) == threads[t].pc \in {"complete_pending", "reject", "callback_lock"}

\* C11: the table's lock covers the mutation of the map and of the slot only:
\* a thread that resolves or rejects an entry has left the critical section
\* before it does so, and therefore no thread ever waits, inside a subscriber's
\* wake callback, for the table lock it holds itself.
C11_ResolveOutsideLock ==
    \A t \in Threads :
        /\ Resolving(t) => lock # t
        /\ ~(threads[t].pc = "callback_lock" /\ lock = t)

\* The state in which `t` has taken the entry of `before.pending` out of the
\* map and has not settled it yet.
BetweenRemoveAndSettle(t) ==
    /\ threads[t].pc \in {"complete_pending", "reject"}
    /\ \A k \in DOMAIN pending : pending[k] # threads[t].resolver
    /\ broadcasters[threads[t].resolver].removed = 1
    /\ broadcasters[threads[t].resolver].state = Unresolved

\* C12: in every settling operation (single ack/nack, cumulative ack/nack,
\* drain, channel error) an entry is taken out of the pending map before it is
\* resolved or rejected: no reachable state, between the steps of the methods
\* included, has a settled entry in the pending map, and a thread about to
\* resolve or reject holds an entry that is already out of the map and not
\* settled yet.
C12_RemoveBeforeBroadcast ==
    /\ \A k \in DOMAIN pending :
          /\ broadcasters[pending[k]].state = Unresolved
          /\ broadcasters[pending[k]].settled = 0
    /\ \A t \in Threads :
          threads[t].pc \in {"complete_pending", "reject"} => BetweenRemoveAndSettle(t)

\* on_channel_error has taken the entry of tag 2 out of the map and has not
\* rejected it yet, after having rejected the entry of tag 1; tag 3 is still in
\* the map.
C12_Witness ==
    \E t \in Dispatchers :
        /\ threads[t].pc = "reject" /\ threads[t].order = <<1, 2>>
        /\ BetweenRemoveAndSettle(t)
        /\ broadcasters[1].state.kind = "Rejected"
        /\ DOMAIN pending = {3}

\* What the method of `frame` does when run in one piece on the table as it
\* was when the lock was taken.
Atomic(frame) ==
    CASE frame.op = "register_pending" -> Inner_register_pending(frame.before)
      [] frame.op = "get_last_pending" ->
            [self |-> [frame.before EXCEPT !.last = None],
             ret |-> IF frame.before.last.kind = "Some"
                     THEN Some(frame.before.last.value.promise) ELSE None]
      [] frame.op = "drop_pending" ->
            Inner_drop_pending(frame.before, frame.arg, frame.success)
      [] frame.op = "complete_pending_before" ->
            Inner_complete_pending_before(frame.before, frame.success, frame.order)
      [] frame.op = "drop_all" ->
            [self |-> Inner_drop_all(frame.before, frame.success, frame.order), ret |-> Ok]
      [] frame.op = "on_channel_error" ->
            [self |-> Inner_on_channel_error(frame.before, frame.arg, frame.order), ret |-> Ok]

\* A publisher's method does not read the returned-message store, which the
\* dispatch thread may have filled meanwhile.
TookEffectAtomically(t) ==
    LET a == Atomic(threads[t])
    IN  /\ threads[t].res = a.ret
        /\ Self = IF t \in Publishers
                  THEN [a.self EXCEPT !.returned_messages = returned_messages]
                  ELSE a.self

\* C13: with two publisher threads and the dispatch thread calling the table
\* concurrently, at most one thread is inside a method at a time, and when a
\* method returns the table is what the method makes, in one piece, of the
\* table it found when it took the lock; no two broadcasters are registered
\* under the same tag; and when ack_all_before(t) / nack_all_before(t) returns,
\* every entry with tag <= t that was pending when it took the lock is out of
\* the map and resolved exactly once.
C13_Serialized ==
    /\ \A t \in Threads : threads[t] # Idle => lock = t
    /\ \A t \in Threads : threads[t].pc = "unlock" => TookEffectAtomically(t)
    /\ \A b1, b2 \in DOMAIN broadcasters :
          b1 # b2 => broadcasters[b1].tag # broadcasters[b2].tag
    /\ \A b \in DOMAIN broadcasters : broadcasters[b].tag <= delivery_tag
    /\ \A t \in Threads :
          (threads[t].pc = "unlock" /\ threads[t].op = "complete_pending_before") =>
              \A k \in DOMAIN threads[t].before.pending :
                  k <= threads[t].arg =>
                      /\ k \notin DOMAIN pending
                      /\ broadcasters[threads[t].before.pending[k]].state.kind =
                            (IF threads[t].success THEN "Ack" ELSE "Nack")
                      /\ broadcasters[threads[t].before.pending[k]].settled = 1

\* ack_all_before(2) is about to return: the two entries that were pending
\* when it took the lock are resolved, the entry of tag 3, registered by the
\* other publisher thread before the call, is still pending.
C13_Witness ==
    \E t \in Dispatchers :
        /\ threads[t].pc = "unlock" /\ threads[t].op = "complete_pending_before"
        /\ threads[t].arg = 2 /\ threads[t].success
        /\ DOMAIN threads[t].before.pending = {1, 2, 3}
        /\ DOMAIN pending = {3}
        /\ broadcasters[1].state.kind = "Ack" /\ broadcasters[2].state.kind = "Ack"

\* The wakers in the registry, and those a wake() has drained and is about to
\* notify.
Held == {wakers[i] : i \in DOMAIN wakers}
BeingWoken ==
    UNION {{threads[t].todo[i] : i \in DOMAIN threads[t].todo} :
              t \in {u \in Threads : threads[u].pc = "wake"}}

\* No waker passed to a register() that has returned is dropped without being
\* notified: it is in the registry, or drained by a wake() that notifies it
\* before it returns.
NoLostNotification ==
    /\ owed \subseteq Held \cup BeingWoken
    /\ (\A t \in Threads : threads[t] = Idle) => owed \subseteq Held

\* C20 as stated: under any interleaving of register() and wake() calls of the
\* threads, no registered handle is dropped without notification, and the
\* registry never holds two equivalent handles, i.e. two handles that wake the
\* same task.
C20_NoLostOnePerTask ==
    /\ NoLostNotification
    /\ \A i, j \in DOMAIN wakers : i # j => task_of(wakers[i]) # task_of(wakers[j])

\* C20 (amended): under any interleaving of register() and wake() calls of the
\* threads, no registered handle is dropped without notification: once all
\* calls have returned, every handle registered since it was last notified is
\* in the registry; and the registry never holds two handles for which
\* will_wake() holds, nor does a wake() notify such a pair.
C20_NoLostNotification ==
    /\ NoLostNotification
    /\ \A i, j \in DOMAIN wakers : i # j => ~will_wake(wakers[i], wakers[j])
    /\ \A t \in Threads :
          threads[t].pc = "wake" =>
              \A i, j \in DOMAIN threads[t].todo :
                  i # j => ~will_wake(threads[t].todo[i], threads[t].todo[j])

\* All calls have returned: waker 1 was registered, notified by a wake(), and
\* registered again, waker 3 was registered after the wake(); both are held.
C20_Witness ==
    /\ \A t \in Threads : threads[t] = Idle
    /\ woken = <<1>>
    /\ wakers = <<3, 1>>
    /\ owed = {1, 3}

====
